---- MODULE Spec2Model ----
(***************************************************************************)
(* Model of run_quantum_simulation and calculate_fidelity (src/server.py). *)
(*                                                                         *)
(* Real numbers are fixed-point integers in thousandths: One = 1.0,        *)
(* threshold = 800 = 0.8, progress 0.1 = 100, and so on.  A draw of        *)
(* random.random() is a value r in 0..One-1 standing for r/One in [0,1).   *)
(* The "message" field of a step is a string derived from the other fields *)
(* and is not modelled.                                                    *)
(***************************************************************************)
EXTENDS Integers, Sequences, FiniteSets, TLC

\* ---------------------------------------------------------------- bounds
\* noiseLevel ranges over the grid k/NoiseSteps, k = 0..NoiseSteps
NoiseSteps == 10
\* random.random() ranges over the grid k/RandSteps, k = 0..RandSteps-1,
\* and the largest representable draw One-1
RandSteps == 5

\* ------------------------------------------------------------- constants
\* the literal 1.0 in thousandths
One == 1000
\* threshold = 0.8
threshold == 800
\* max_attempts = 3
max_attempts == 3

NoiseLevels == {(k * One) \div NoiseSteps : k \in 0..NoiseSteps}
RandomDraws == {(k * One) \div RandSteps : k \in 0..(RandSteps - 1)} \cup {One - 1}

Min(a, b) == IF a <= b THEN a ELSE b
Max(a, b) == IF a >= b THEN a ELSE b

\* ----------------------------------------------------------------- state
VARIABLES
    noise_level,           \* argument of run_quantum_simulation
    purification_enabled,  \* argument of run_quantum_simulation
    steps,                 \* the trace built so far
    attempt,               \* loop counter
    success,               \* loop flag
    fidelity,              \* local of the loop body (Unbound before line 69)
    raws,                  \* history: value returned by calculate_fidelity per attempt
    results,               \* the results dict (None until assembled)
    pc,                    \* position in run_quantum_simulation
    peer,                  \* the locals of a second invocation (another request)
    draws                  \* history: the random values drawn, kept for a replay

\* the state of the invocation above
locals == <<noise_level, purification_enabled, steps, attempt, success,
            fidelity, raws, results, pc>>

vars == <<noise_level, purification_enabled, steps, attempt, success,
          fidelity, raws, results, pc, peer, draws>>

\* a dict not yet built
None == [unset |-> TRUE]
\* the value of a local that is not yet assigned
Unbound == -1

\* ------------------------------------------------------ calculate_fidelity
\* base_fidelity = 1.0 - noise_level
base_fidelity_Swapped(n) == n
base_fidelity(n) == One - n

\* random_factor = (random.random() * 0.2) - 0.1
random_factor(r) == (r * 200) \div One - 100

\* attempt_bonus = (attempt - 1) * 0.05
attempt_bonus_NoOffset(a) == a * 50
attempt_bonus(a) == (a - 1) * 50

\* return max(0.5, min(1.0, fidelity))
clamp_NoFloor(f) == Min(One, f)
clamp(f) == Max(500, Min(One, f))

calculate_fidelity(n, a, r) ==
    clamp(base_fidelity(n) + random_factor(r) + attempt_bonus(a))

\* 0.2 + random.random() * 0.1, as double arithmetic evaluates it: the sum is
\* rounded to the nearest representable value, so the largest draws below 1.0
\* (1 - 2^-53 among them) give the double 0.3 itself
boost_Truncated(r) == 200 + (r * 100) \div One
boost(r) == 200 + (r * 100 + One \div 2) \div One

\* fidelity += 0.2 + random.random() * 0.1 ; fidelity = min(fidelity, 1.0)
\* (0.5 + 0.3 evaluates to the double 0.8, which is >= threshold)
purify(f, r) == Min(f + boost(r), One)

\* ------------------------------------------------------------ step records
Step(st, pr) == [status |-> st, progress |-> pr, attempt |-> attempt]
FStep(st, pr) ==
    [status |-> st, progress |-> pr, fidelity |-> fidelity, attempt |-> attempt]

\* steps[-1].get("fidelity", 0)
GetFidelity_WrongKey(s) == IF "Fidelity" \in DOMAIN s THEN s.Fidelity ELSE 0
GetFidelity(s) == IF "fidelity" \in DOMAIN s THEN s.fidelity ELSE 0

Last(s) == s[Len(s)]

\* the locals of an invocation at entry (lines 39-43); mode says how the
\* second invocation is run: "idle" (absent), "concurrent", or "replay"
NewCall(mode, n, p) ==
    [mode |-> mode, noise_level |-> n, purification_enabled |-> p,
     steps |-> <<>>, attempt |-> 0, success |-> FALSE, fidelity |-> Unbound,
     results |-> None, pc |-> "loop", ndraws |-> 0]

\* the random values are recorded only when a replay of the run is set up
Log(r) == draws' = IF peer.mode = "replay" THEN Append(draws, r) ELSE draws

\* ------------------------------------------------------------------ Init
Init ==
    /\ noise_level \in NoiseLevels
    /\ purification_enabled \in BOOLEAN
    /\ steps = <<>>
    /\ attempt = 0
    /\ success = FALSE
    /\ fidelity = Unbound
    /\ raws = <<>>
    /\ results = None
    /\ pc = "loop"
    /\ peer = NewCall("idle", 0, FALSE)
    /\ draws = <<>>

\* --------------------------------------------------------------- actions
\* while not success and attempt < max_attempts: attempt += 1
LoopGuard_OffByOneHigh == ~success /\ attempt <= max_attempts
LoopGuard_OffByOneLow == ~success /\ attempt < max_attempts - 1
LoopGuard == ~success /\ attempt < max_attempts

EnterAttempt ==
    /\ pc = "loop"
    /\ LoopGuard
    /\ attempt' = attempt + 1
    /\ pc' = "init1"
    /\ UNCHANGED <<peer, draws, noise_level, purification_enabled, steps, success,
                   fidelity, raws, results>>

\* append one step and move on
Emit(from, s, to) ==
    /\ pc = from
    /\ steps' = Append(steps, s)
    /\ pc' = to
    /\ UNCHANGED <<peer, draws, noise_level, purification_enabled, attempt, success,
                   fidelity, raws, results>>

Initializing1 == Emit("init1", Step("initializing", 100), "init2")

Initializing2 == Emit("init2", Step("initializing", 200), "sending")

Sending == Emit("sending", Step("sending", 300), "calc")

\* fidelity = calculate_fidelity(noise_level, attempt)
ComputeFidelity_HiddenEntropy ==
    /\ pc = "calc"
    /\ \E r \in RandomDraws, h \in {0, 50} :
          /\ fidelity' = clamp(calculate_fidelity(noise_level, attempt, r) + h)
          /\ raws' = Append(raws, fidelity')
          /\ Log(r)
    /\ pc' = "purify_test"
    /\ UNCHANGED <<peer, noise_level, purification_enabled, steps, attempt, success,
                   results>>
ComputeFidelity ==
    /\ pc = "calc"
    /\ \E r \in RandomDraws :
          /\ fidelity' = calculate_fidelity(noise_level, attempt, r)
          /\ raws' = Append(raws, fidelity')
          /\ Log(r)
    /\ pc' = "purify_test"
    /\ UNCHANGED <<peer, noise_level, purification_enabled, steps, attempt, success,
                   results>>

\* if purification_enabled and fidelity < threshold: first "purifying" step
PurifyBegin_IgnoresFlag ==
    /\ pc = "purify_test"
    /\ fidelity < threshold
    /\ Emit("purify_test", FStep("purifying", 400), "boost")
PurifyBegin ==
    /\ pc = "purify_test"
    /\ purification_enabled /\ fidelity < threshold
    /\ Emit("purify_test", FStep("purifying", 400), "boost")

PurifySkip ==
    /\ pc = "purify_test"
    /\ ~(purification_enabled /\ fidelity < threshold)
    /\ pc' = "measure"
    /\ UNCHANGED <<peer, draws, noise_level, purification_enabled, steps, attempt, success,
                   fidelity, raws, results>>

Boost ==
    /\ pc = "boost"
    /\ \E r \in RandomDraws : fidelity' = purify(fidelity, r) /\ Log(r)
    /\ pc' = "purify_end"
    /\ UNCHANGED <<peer, noise_level, purification_enabled, steps, attempt, success,
                   raws, results>>

PurifyEnd_NoStep ==
    /\ pc = "purify_end"
    /\ pc' = "measure"
    /\ UNCHANGED <<peer, draws, noise_level, purification_enabled, steps, attempt, success,
                   fidelity, raws, results>>
PurifyEnd == Emit("purify_end", FStep("purifying", 500), "measure")

Measuring == Emit("measure", FStep("measuring", 700), "decide")

\* if fidelity >= threshold: success = True; "success" step
SuccessStep_FlagNotSet ==
    /\ pc = "decide"
    /\ fidelity >= threshold
    /\ Emit("decide", FStep("success", One), "loop")
SuccessStep ==
    /\ pc = "decide"
    /\ fidelity >= threshold
    /\ success' = TRUE
    /\ steps' = Append(steps, FStep("success", One))
    /\ pc' = "loop"
    /\ UNCHANGED <<peer, draws, noise_level, purification_enabled, attempt, fidelity, raws,
                   results>>

\* else: "retry" step
RetryStep_LowProgress ==
    /\ pc = "decide"
    /\ fidelity < threshold
    /\ Emit("decide", FStep("retry", 600), "loop")
RetryStep ==
    /\ pc = "decide"
    /\ fidelity < threshold
    /\ Emit("decide", FStep("retry", 900), "loop")

\* latency = attempt * (1 + noise_level); results = {...}; return
MakeResults(att, lat) ==
    [success |-> success,
     fidelity |-> GetFidelity(Last(steps)),
     attempts |-> att,
     latency |-> lat,
     noiseLevel |-> noise_level,
     purificationEnabled |-> purification_enabled]

Return_AttemptsOffByOne ==
    /\ pc = "loop"
    /\ ~LoopGuard
    /\ results' = MakeResults(attempt + 1, attempt * (One + noise_level))
    /\ pc' = "done"
    /\ UNCHANGED <<peer, draws, noise_level, purification_enabled, steps, attempt, success,
                   fidelity, raws>>
Return_LatencyPrecedence ==
    /\ pc = "loop"
    /\ ~LoopGuard
    /\ results' = MakeResults(attempt, attempt * One + noise_level)
    /\ pc' = "done"
    /\ UNCHANGED <<peer, draws, noise_level, purification_enabled, steps, attempt, success,
                   fidelity, raws>>
Return ==
    /\ pc = "loop"
    /\ ~LoopGuard
    /\ results' = MakeResults(attempt, attempt * (One + noise_level))
    /\ pc' = "done"
    /\ UNCHANGED <<peer, draws, noise_level, purification_enabled, steps, attempt, success,
                   fidelity, raws>>

Next ==
    \/ EnterAttempt
    \/ Initializing1
    \/ Initializing2
    \/ Sending
    \/ ComputeFidelity
    \/ PurifyBegin
    \/ PurifySkip
    \/ Boost
    \/ PurifyEnd
    \/ Measuring
    \/ SuccessStep
    \/ RetryStep
    \/ Return

Spec == Init /\ [][Next]_vars

\* the call is one sequential thread: it keeps running until it returns
LiveSpec == Spec /\ WF_vars(Next)

Done == pc = "done"

\* ---------------------------------------------- out-of-range noise levels
\* noise levels from -1.0 to 2.0 on the grid, and two far outside
WideNoiseLevels ==
    {(k * One) \div NoiseSteps : k \in (0 - NoiseSteps)..(2 * NoiseSteps)}
        \cup {0 - 100 * One, 100 * One}

WideInit ==
    /\ noise_level \in WideNoiseLevels
    /\ purification_enabled \in BOOLEAN
    /\ steps = <<>>
    /\ attempt = 0
    /\ success = FALSE
    /\ fidelity = Unbound
    /\ raws = <<>>
    /\ results = None
    /\ pc = "loop"
    /\ peer = NewCall("idle", 0, FALSE)
    /\ draws = <<>>

WideSpec == WideInit /\ [][Next]_vars /\ WF_vars(Next)

\* --------------------------------------------------- a second invocation
\* a step dict of invocation c
CallStep(c, st, pr) == [status |-> st, progress |-> pr, attempt |-> c.attempt]
CallFStep(c, st, pr) ==
    [status |-> st, progress |-> pr, fidelity |-> c.fidelity, attempt |-> c.attempt]

\* the results dict of invocation c (lines 117-126)
CallResults(c) ==
    [success |-> c.success,
     fidelity |-> GetFidelity(Last(c.steps)),
     attempts |-> c.attempt,
     latency |-> c.attempt * (One + c.noise_level),
     noiseLevel |-> c.noise_level,
     purificationEnabled |-> c.purification_enabled]

\* one statement of run_quantum_simulation executed on the locals c of an
\* invocation, r being the value random.random() returns if it is called
Advance(c, r) ==
    CASE c.pc = "loop" ->
            IF ~c.success /\ c.attempt < max_attempts
            THEN [c EXCEPT !.attempt = @ + 1, !.pc = "init1"]
            ELSE [c EXCEPT !.results = CallResults(c), !.pc = "done"]
      [] c.pc = "init1" ->
            [c EXCEPT !.steps = Append(@, CallStep(c, "initializing", 100)),
                      !.pc = "init2"]
      [] c.pc = "init2" ->
            [c EXCEPT !.steps = Append(@, CallStep(c, "initializing", 200)),
                      !.pc = "sending"]
      [] c.pc = "sending" ->
            [c EXCEPT !.steps = Append(@, CallStep(c, "sending", 300)),
                      !.pc = "calc"]
      [] c.pc = "calc" ->
            [c EXCEPT !.fidelity = calculate_fidelity(c.noise_level, c.attempt, r),
                      !.ndraws = @ + 1,
                      !.pc = "purify_test"]
      [] c.pc = "purify_test" ->
            IF c.purification_enabled /\ c.fidelity < threshold
            THEN [c EXCEPT !.steps = Append(@, CallFStep(c, "purifying", 400)),
                           !.pc = "boost"]
            ELSE [c EXCEPT !.pc = "measure"]
      [] c.pc = "boost" ->
            [c EXCEPT !.fidelity = purify(@, r),
                      !.ndraws = @ + 1,
                      !.pc = "purify_end"]
      [] c.pc = "purify_end" ->
            LET d == [c EXCEPT !.pc = "measure"]
            IN  [d EXCEPT !.steps = Append(@, CallFStep(c, "purifying", 500))]
      [] c.pc = "measure" ->
            [c EXCEPT !.steps = Append(@, CallFStep(c, "measuring", 700)),
                      !.pc = "decide"]
      [] c.pc = "decide" ->
            IF c.fidelity >= threshold
            THEN [c EXCEPT !.success = TRUE,
                           !.steps = Append(@, CallFStep(c, "success", One)),
                           !.pc = "loop"]
            ELSE [c EXCEPT !.steps = Append(@, CallFStep(c, "retry", 900)),
                           !.pc = "loop"]
      [] OTHER -> c

\* -- two requests served at the same time (simulate, lines 17-25)
\* the inputs and the draws of the concurrent runs
ConcNoiseLevels == {(3 * One) \div 10, One}
PeerDraws == {0, One - 1}

ConcInit ==
    /\ noise_level \in ConcNoiseLevels
    /\ purification_enabled \in BOOLEAN
    /\ steps = <<>>
    /\ attempt = 0
    /\ success = FALSE
    /\ fidelity = Unbound
    /\ raws = <<>>
    /\ results = None
    /\ pc = "loop"
    /\ \E n \in ConcNoiseLevels, p \in BOOLEAN : peer = NewCall("concurrent", n, p)
    /\ draws = <<>>

\* the second invocation executes one statement; all it reads and writes
\* are its own locals and the random source
PeerStep_SharedSteps ==
    /\ peer.mode = "concurrent"
    /\ peer.pc # "done"
    /\ \E r \in PeerDraws :
          LET c == Advance([peer EXCEPT !.steps = steps], r) IN
          /\ peer' = [c EXCEPT !.steps = <<>>]
          /\ steps' = c.steps
    /\ UNCHANGED <<draws, noise_level, purification_enabled, attempt, success,
                   fidelity, raws, results, pc>>
PeerStep ==
    /\ peer.mode = "concurrent"
    /\ peer.pc # "done"
    /\ \E r \in PeerDraws : peer' = Advance(peer, r)
    /\ UNCHANGED <<locals, draws>>

ConcNext ==
    \/ Next
    \/ PeerStep

ConcSpec == ConcInit /\ [][ConcNext]_vars

\* -- a second run given the same inputs and the same random values
ReplayNoiseLevels == {0, (3 * One) \div 10, One \div 2}

ReplayInit ==
    /\ noise_level \in ReplayNoiseLevels
    /\ purification_enabled \in BOOLEAN
    /\ steps = <<>>
    /\ attempt = 0
    /\ success = FALSE
    /\ fidelity = Unbound
    /\ raws = <<>>
    /\ results = None
    /\ pc = "loop"
    /\ peer = NewCall("replay", noise_level, purification_enabled)
    /\ draws = <<>>

DrawsNext(c) == c.pc \in {"calc", "boost"}

\* after the first run has returned, the second run executes one statement,
\* its random.random() returning the value the first run got at that call
PeerReplay ==
    /\ peer.mode = "replay"
    /\ pc = "done"
    /\ peer.pc # "done"
    /\ DrawsNext(peer) => peer.ndraws < Len(draws)
    /\ peer' = Advance(peer, IF DrawsNext(peer) THEN draws[peer.ndraws + 1] ELSE 0)
    /\ UNCHANGED <<locals, draws>>

ReplayNext ==
    \/ Next
    \/ PeerReplay

ReplaySpec == ReplayInit /\ [][ReplayNext]_vars

\* ------------------------------------------------------- trace operators
\* the steps of attempt a, in trace order
StepsOf(a) == SelectSeq(steps, LAMBDA s : s.attempt = a)

\* the steps of attempt a with status st, in trace order
StepsWith(a, st) == SelectSeq(steps, LAMBDA s : s.attempt = a /\ s.status = st)

\* number of steps of the whole trace with status st
CountStatus(st) == Len(SelectSeq(steps, LAMBDA s : s.status = st))

AttemptNumbers == {steps[i].attempt : i \in DOMAIN steps}

InRange(f) == 500 <= f /\ f <= 1000

\* ----------------------------------------------------------------- claims

\* C1: for every noiseLevel in [0,1] and both purification settings the run
\* terminates, never executes more than 3 attempts, and returns attempts
\* in 1..3.
C1_TerminatesWithin3Attempts ==
    /\ [](attempt <= 3 /\ Len(raws) <= 3)
    /\ [](Done => results.attempts \in 1..3)
    /\ <>Done

C1_Witness == Done /\ results.attempts = 3 /\ Len(raws) = 3

\* C2: in a completed run results.success is true iff the final step has
\* status "success" and fidelity >= 0.8.
C2_SuccessIffFinalSuccessStep ==
    Done => (results.success <=>
                (Last(steps).status = "success" /\ Last(steps).fidelity >= 800))

C2_Witness ==
    /\ Done /\ results.success
    /\ Last(steps).status = "success" /\ Last(steps).attempt = 3

\* C3: a completed run ends in exactly one of: (a) success - last attempt's
\* fidelity >= 0.8, final step "success", results.success true; (b)
\* exhaustion - final step "retry", results.success false, attempts = 3.
C3_EndsSuccess ==
    /\ fidelity >= 800
    /\ Last(steps).status = "success"
    /\ results.success

C3_EndsExhausted ==
    /\ Last(steps).status = "retry"
    /\ ~results.success
    /\ results.attempts = 3

C3_ExactlyOneTerminalCondition ==
    Done => /\ C3_EndsSuccess \/ C3_EndsExhausted
            /\ ~(C3_EndsSuccess /\ C3_EndsExhausted)
            /\ Last(steps).status \in {"success", "retry"}

C3_Witness ==
    /\ Done /\ purification_enabled
    /\ Last(steps).status = "retry" /\ results.attempts = 3

\* C4: every fidelity value - the raw value returned by calculate_fidelity,
\* the value after a purification boost, every step's fidelity and
\* results.fidelity - lies in [0.5, 1.0].
C4_FidelityInRange ==
    /\ \A a \in DOMAIN raws : InRange(raws[a])
    /\ fidelity # Unbound => InRange(fidelity)
    /\ \A i \in DOMAIN steps :
          "fidelity" \in DOMAIN steps[i] => InRange(steps[i].fidelity)
    /\ Done => InRange(results.fidelity)

C4_Witness ==
    /\ Done /\ noise_level = One /\ purification_enabled
    /\ results.fidelity > 500
    /\ \E a \in DOMAIN raws : raws[a] = 500

\* C5: in an attempt (past its purification stage) with purificationEnabled
\* and raw fidelity below 0.8 the trace has exactly two "purifying" steps,
\* progress 0.4 then 0.5, the second with fidelity >= the first's.
C5_TwoPurifyingSteps ==
    \A a \in DOMAIN raws :
        (/\ purification_enabled
         /\ raws[a] < 800
         /\ Len(StepsWith(a, "measuring")) > 0)
        => LET P == StepsWith(a, "purifying") IN
           /\ Len(P) = 2
           /\ P[1].progress = 400
           /\ P[2].progress = 500
           /\ P[2].fidelity >= P[1].fidelity

C5_Witness ==
    /\ Done /\ purification_enabled
    /\ \E a \in DOMAIN raws :
          /\ raws[a] < 800
          /\ Len(StepsWith(a, "purifying")) = 2
          /\ StepsWith(a, "purifying")[2].fidelity > StepsWith(a, "purifying")[1].fidelity

\* C6 (as stated): each attempt emits at most 6 steps and a run at most 18.
C6_AtMost6PerAttempt18PerRun ==
    /\ \A a \in 1..3 : Len(StepsOf(a)) <= 6
    /\ Len(steps) <= 18

\* C6 (amended): each attempt emits at most 7 steps and a run at most 21.
C6_AtMost7PerAttempt21PerRun ==
    /\ \A a \in AttemptNumbers : Len(StepsOf(a)) <= 7
    /\ Len(steps) <= 21

C6_Witness == Done /\ Len(steps) = 21 /\ Len(StepsOf(3)) = 7

\* C7: results.attempts equals the number of attempt cycles executed: the
\* number of distinct attempt numbers in the trace, the number of
\* "measuring" steps, the attempt field of the final step; and is <= 3.
C7_AttemptsCountsCycles ==
    Done => /\ results.attempts = Cardinality(AttemptNumbers)
            /\ results.attempts = CountStatus("measuring")
            /\ results.attempts = Last(steps).attempt
            /\ results.attempts = Len(raws)
            /\ results.attempts <= 3

C7_Witness == Done /\ results.attempts = 2 /\ CountStatus("measuring") = 2

\* C8: for consecutive steps with the same attempt number the later
\* progress is >= the earlier progress.
C8_ProgressNonDecreasing ==
    \A i \in 1..(Len(steps) - 1) :
        steps[i].attempt = steps[i + 1].attempt
        => steps[i + 1].progress >= steps[i].progress

C8_Witness ==
    /\ Done
    /\ CountStatus("purifying") > 0
    /\ CountStatus("retry") > 0
    /\ Last(steps).status = "success"

\* C9: results.latency = results.attempts * (1 + noiseLevel), whatever the
\* draws and the purification setting.
C9_Latency ==
    Done => results.latency = results.attempts * (One + results.noiseLevel)

C9_Witness ==
    /\ Done /\ results.attempts = 2
    /\ results.noiseLevel > 0 /\ results.noiseLevel < One
    /\ results.purificationEnabled

\* C10: with noiseLevel = 1.0 and purification off every raw fidelity is 0.5,
\* every attempt ends in "retry", exactly 3 attempts run, and the result has
\* attempts = 3 and success = false.
C10_FullNoiseNoPurification ==
    (noise_level = One /\ ~purification_enabled)
    => /\ \A a \in DOMAIN raws : raws[a] = 500
       /\ CountStatus("success") = 0
       /\ CountStatus("purifying") = 0
       /\ pc = "loop" => CountStatus("retry") = attempt
       /\ Done => /\ Len(raws) = 3
                  /\ CountStatus("retry") = 3
                  /\ results.attempts = 3
                  /\ results.success = FALSE

C10_Witness ==
    /\ Done /\ noise_level = One /\ ~purification_enabled
    /\ CountStatus("retry") = 3 /\ results.fidelity = 500

\* the <<status, progress>> pairs of attempt a, in trace order
Shape(a) == [i \in 1..Len(StepsOf(a)) |-> <<StepsOf(a)[i].status, StepsOf(a)[i].progress>>]

IsPrefix(s, u) == Len(s) <= Len(u) /\ s = SubSeq(u, 1, Len(s))

\* attempt a has emitted its last step
Completed(a) == a < attempt \/ (a = attempt /\ pc \in {"loop", "done"})

\* C11: for any numeric noiseLevel, in or out of [0,1], and either flag the
\* run never stops without a result, returns, and the result is a success or
\* an exhausted-retries failure with attempts in 1..3 and fidelity in
\* [0.5, 1.0].
C11_Outcome ==
    /\ results.attempts \in 1..3
    /\ InRange(results.fidelity)
    /\ \/ results.success /\ Last(steps).status = "success"
       \/ ~results.success /\ results.attempts = 3 /\ Last(steps).status = "retry"

C12_OwnTrace(c) ==
    /\ \A i \in DOMAIN c.steps : c.steps[i].attempt \in 1..c.attempt
    /\ c.pc = "done"
          => /\ c.results.attempts = c.attempt
             /\ c.results.success = c.success
             /\ c.results.fidelity = Last(c.steps).fidelity
             /\ c.results.noiseLevel = c.noise_level
             /\ c.results.purificationEnabled = c.purification_enabled
             /\ c.results.success <=> Last(c.steps).status = "success"

C12_Main ==
    [noise_level |-> noise_level, purification_enabled |-> purification_enabled,
     steps |-> steps, attempt |-> attempt, success |-> success,
     results |-> results, pc |-> pc]

C12_NoInterference ==
    /\ [](C12_OwnTrace(peer) /\ C12_OwnTrace(C12_Main))
    /\ [][/\ locals' # locals => (peer' = peer /\ Next)
          /\ peer' # peer
                => /\ locals' = locals
                   /\ \E r \in RandomDraws : peer' = Advance(peer, r)]_vars

C12_Witness ==
    /\ pc = "boost" /\ attempt = 2
    /\ peer.pc = "decide" /\ peer.attempt = 3
    /\ peer.noise_level # noise_level

\* C13: a second run given the same noiseLevel, the same flag and the same
\* sequence of random values never asks for a value the first run did not
\* draw, builds the same trace step by step, and returns the same result.
C13_SameDrawsSameRun ==
    peer.mode = "replay"
    => /\ IsPrefix(peer.steps, steps)
       /\ (Done /\ DrawsNext(peer)) => peer.ndraws < Len(draws)
       /\ peer.pc = "done"
             => /\ peer.steps = steps
                /\ peer.results = results
                /\ peer.ndraws = Len(draws)

C13_Witness ==
    /\ peer.mode = "replay" /\ peer.pc = "done"
    /\ Len(peer.steps) = 21 /\ peer.ndraws = 6

\* C14: within every attempt the steps are, in order, initializing 0.1,
\* initializing 0.2, sending 0.3, optionally purifying 0.4 and purifying 0.5,
\* measuring 0.7, then exactly one of success 1.0 or retry 0.9.
C14_FullShapes ==
    LET head == << <<"initializing", 100>>, <<"initializing", 200>>, <<"sending", 300>> >>
        pur == << <<"purifying", 400>>, <<"purifying", 500>> >>
        meas == << <<"measuring", 700>> >>
    IN  {head \o p \o meas \o <<e>> :
            p \in {<<>>, pur}, e \in {<<"success", 1000>>, <<"retry", 900>>}}

C14_StepOrderWithinAttempt ==
    \A a \in AttemptNumbers :
        /\ \E full \in C14_FullShapes : IsPrefix(Shape(a), full)
        /\ Completed(a) => Shape(a) \in C14_FullShapes

C14_Witness ==
    /\ Done /\ results.attempts = 2
    /\ Len(StepsOf(1)) = 7 /\ Len(StepsOf(2)) = 7
    /\ Last(steps).status = "success"

\* C15: the first step has attempt 1; the attempt number changes only right
\* after a "retry" step and then by exactly +1; a "retry" step with attempt < 3
\* is followed by an "initializing" step with attempt + 1; "success" occurs at
\* most once and is the last step.
C15_AttemptSequencing ==
    /\ Len(steps) > 0 => steps[1].attempt = 1
    /\ \A i \in 1..(Len(steps) - 1) :
          /\ steps[i + 1].attempt # steps[i].attempt
                => /\ steps[i].status = "retry"
                   /\ steps[i + 1].attempt = steps[i].attempt + 1
          /\ steps[i].status = "retry"
                => /\ steps[i + 1].status = "initializing"
                   /\ steps[i + 1].attempt = steps[i].attempt + 1
          /\ steps[i].status # "success"
    /\ Done => \A i \in DOMAIN steps :
                  (steps[i].status = "retry" /\ steps[i].attempt < 3) => i < Len(steps)
    /\ CountStatus("success") <= 1

C15_Witness ==
    /\ Done /\ CountStatus("retry") = 2 /\ CountStatus("success") = 1
    /\ Last(steps).attempt = 3

\* C16: an attempt has "purifying" steps iff purificationEnabled and its raw
\* fidelity is below 0.8; with the flag off no "purifying" step exists; when
\* purification does not run the measured fidelity equals the raw fidelity.
C16_PurificationIff ==
    /\ ~purification_enabled => CountStatus("purifying") = 0
    /\ \A a \in DOMAIN raws :
          Len(StepsWith(a, "measuring")) > 0
          => /\ (Len(StepsWith(a, "purifying")) > 0)
                    <=> (purification_enabled /\ raws[a] < 800)
             /\ (~purification_enabled \/ raws[a] >= 800)
                    => StepsWith(a, "measuring")[1].fidelity = raws[a]

C16_Witness ==
    /\ Done /\ purification_enabled /\ results.attempts = 1
    /\ raws[1] >= 800 /\ CountStatus("purifying") = 0
    /\ results.fidelity = raws[1]

\* C17: the final step carries a fidelity, results.fidelity is never the
\* fallback 0, and results.fidelity = the final step's fidelity = the
\* fidelity of the "measuring" step of the last executed attempt.
C17_ResultFidelityIsMeasured ==
    Done => /\ "fidelity" \in DOMAIN Last(steps)
            /\ results.fidelity # 0
            /\ results.fidelity = Last(steps).fidelity
            /\ Len(StepsWith(results.attempts, "measuring")) = 1
            /\ results.fidelity = StepsWith(results.attempts, "measuring")[1].fidelity

C17_Witness ==
    /\ Done /\ results.attempts = 3
    /\ Len(StepsWith(3, "purifying")) = 2
    /\ results.fidelity > raws[3]

\* C18: the raw fidelity of attempt a is
\* clamp((1.0 - noiseLevel) + randomFactor + (a - 1) * 0.05, 0.5, 1.0) with
\* randomFactor in [-0.1, 0.1), and for a fixed noiseLevel and draw it is
\* non-decreasing in the attempt number.
C18_FidelityFormula ==
    /\ \A r \in RandomDraws : -100 <= random_factor(r) /\ random_factor(r) < 100
    /\ \A a \in DOMAIN raws :
          \E r \in RandomDraws :
              LET x == (1000 - noise_level) + random_factor(r) + (a - 1) * 50
              IN  raws[a] = (IF x < 500 THEN 500 ELSE IF x > 1000 THEN 1000 ELSE x)
    /\ \A r \in RandomDraws : \A a \in 1..2 :
          calculate_fidelity(noise_level, a, r)
              <= calculate_fidelity(noise_level, a + 1, r)

C18_Witness ==
    /\ noise_level = 300 /\ ~purification_enabled
    /\ raws = <<600, 650, 700>>

\* C19 (as stated): an attempt whose raw fidelity is 0.5 and that is purified
\* has post-purification fidelity strictly below 0.8 and ends in "retry";
\* hence with noiseLevel = 1.0 and purification on every run executes 3
\* attempts and returns success = false.
C19_FloorNeverRescued ==
    /\ \A a \in DOMAIN raws :
          (purification_enabled /\ raws[a] = 500
             /\ Len(StepsWith(a, "measuring")) > 0)
          => /\ StepsWith(a, "measuring")[1].fidelity < 800
             /\ Len(StepsWith(a, "success")) = 0
    /\ (noise_level = One /\ purification_enabled /\ Done)
          => (results.attempts = 3 /\ results.success = FALSE)

\* C20: with noiseLevel = 0.0 every raw fidelity is >= 0.9, no purification
\* or retry happens, and the run succeeds on attempt 1 with the 5-step trace
\* initializing, initializing, sending, measuring, success.
C20_NoNoiseFirstAttemptSucceeds ==
    noise_level = 0
    => /\ \A a \in DOMAIN raws : raws[a] >= 900
       /\ attempt <= 1
       /\ CountStatus("purifying") = 0
       /\ CountStatus("retry") = 0
       /\ Len(steps) <= 5
       /\ Done => /\ [i \in 1..Len(steps) |-> steps[i].status]
                       = <<"initializing", "initializing", "sending",
                           "measuring", "success">>
                  /\ results.attempts = 1
                  /\ results.success = TRUE

C20_Witness ==
    /\ Done /\ noise_level = 0 /\ purification_enabled
    /\ Len(steps) = 5 /\ results.fidelity = 900

====
